---- MODULE Spec2Model ----
(***************************************************************************)
(* Model of main.py: process_csv (scan_csv, five aggregations, collect,    *)
(* SelectedStats) and main (the try block, the seven prints, the error     *)
(* handler and sys.exit).                                                  *)
(*                                                                         *)
(* Float64 is scaled down to a fixed-point format: a finite value is an    *)
(* integer number of units of 10^-(Digits+1), at most FMax in magnitude;   *)
(* a sum beyond FMax overflows to infinity, NaN and infinity behave as in  *)
(* IEEE 754, a quotient is rounded to the nearest unit.  Rounding of       *)
(* additions is not modelled: sums are exact until they overflow.          *)
(*                                                                         *)
(* The Polars calls are modelled by what the library does: scan_csv opens  *)
(* the file either at once or only on collect (polars.lazyScan), the sum   *)
(* of no values is 0.0 or null (polars.zeroSum), cast(Float64) is strict,  *)
(* min and max skip NaN, count counts the non-null raw cells.              *)
(***************************************************************************)
EXTENDS Integers, Sequences, FiniteSets

VARIABLES
    polars,     \* the library build: [lazyScan, zeroSum]
    file,       \* the file at args.file_path: [state, columns]
    args,       \* the parsed command line: [column_name]
    pc,         \* the statement main or process_csv is at
    lf,         \* process_csv's LazyFrame: "unset" or "plan"
    stats_df,   \* the one-row frame collect returns
    stats,      \* main's SelectedStats
    exc,        \* the exception in flight
    stdout,     \* the lines printed to standard output
    stderr,     \* the lines printed to standard error
    exitCode,   \* the exit status, -1 while running
    run,        \* which invocation this is
    prev        \* what the previous invocation ended with

vars == <<polars, file, args, pc, lf, stats_df, stats, exc, stdout, stderr,
          exitCode, run, prev>>

\* ------------------------------------------------------------------ bounds
MaxRows == 3
FMax == 10000000
MaxRuns == 2

\* ------------------------------------------------- program constants
Digits == 4
Scale == 10 ^ (Digits + 1)

\* ------------------------------------------------- Optional[float]
None == [kind |-> "none", v |-> 0]
NaN == [kind |-> "nan", v |-> 0]
PInf == [kind |-> "inf", v |-> 1]
NInf == [kind |-> "inf", v |-> -1]
Fin(n) == [kind |-> "fin", v |-> n]

Abs(n) == IF n < 0 THEN -n ELSE n

\* A result of exact arithmetic brought back into the format.
Overflow(n) == IF n > FMax THEN PInf ELSE IF n < -FMax THEN NInf ELSE Fin(n)

\* Float64 addition.
FAdd(a, b) ==
    IF a.kind = "nan" \/ b.kind = "nan" THEN NaN
    ELSE IF a.kind = "inf" /\ b.kind = "inf"
         THEN IF a.v = b.v THEN a ELSE NaN
    ELSE IF a.kind = "inf" THEN a
    ELSE IF b.kind = "inf" THEN b
    ELSE Overflow(a.v + b.v)

\* n / d rounded to the nearest integer, ties to even (d > 0).
RoundDiv(n, d) ==
    LET a == Abs(n)
        q == a \div d
        r == a % d
        up == (2 * r > d) \/ (2 * r = d /\ q % 2 = 1)
        m == IF up THEN q + 1 ELSE q
    IN  IF n < 0 THEN -m ELSE m

\* Float64 division by a positive count.
FDiv(a, n) == IF a.kind = "fin" THEN Fin(RoundDiv(a.v, n)) ELSE a

\* a < b on floats; every comparison with NaN is false.
FLess(a, b) ==
    /\ a.kind # "nan"
    /\ b.kind # "nan"
    /\ \/ a.kind = "fin" /\ b.kind = "fin" /\ a.v < b.v
       \/ a.kind = "inf" /\ a.v = -1 /\ b # NInf
       \/ b.kind = "inf" /\ b.v = 1 /\ a # PInf

\* a <= b on floats; every comparison with NaN is false.
FLe(a, b) == a.kind # "nan" /\ b.kind # "nan" /\ (a = b \/ FLess(a, b))

\* ------------------------------------------------- the CSV file
NullCell == [t |-> "null", f |-> None]
TextCell == [t |-> "text", f |-> None]
NumCell(x) == [t |-> "num", f |-> x]

\* The cells a data row can hold in the column: blank, a non-numeric string,
\* NaN, and finite numbers (-0.00004, 0, 10, 30 and the largest finite value).
FiniteCells == {-4, 0, 10 * Scale, 30 * Scale, FMax}
Cells == {NullCell, TextCell, NumCell(NaN)} \cup {NumCell(Fin(n)) : n \in FiniteCells}

RECURSIVE SeqsUpTo(_, _)
SeqsUpTo(S, n) ==
    IF n = 0 THEN {<<>>}
    ELSE LET shorter == SeqsUpTo(S, n - 1)
         IN  shorter \cup {Append(s, c) : s \in {t \in shorter : Len(t) = n - 1}, c \in S}

DefaultColumn == "Amount Received"
ColumnNames == {DefaultColumn, "amount received"}

MissingFile == [state |-> "missing", header |-> {}, data |-> <<>>]
GarbledFile == [state |-> "garbled", header |-> {}, data |-> <<>>]
CsvFile(d) == [state |-> "ok", header |-> {DefaultColumn}, data |-> d]
Files == {MissingFile, GarbledFile} \cup {CsvFile(d) : d \in SeqsUpTo(Cells, MaxRows)}

\* The library builds: a build that opens the file only on collect also
\* defines the sum of no values as 0.0.
PolarsBuilds ==
    {b \in [lazyScan : BOOLEAN, zeroSum : BOOLEAN] : b.lazyScan => b.zeroSum}

\* ------------------------------------------------- the aggregations
\* pl.col(column_name).count(): the non-null raw cells.
RECURSIVE Count(_)
Count(col) ==
    IF col = <<>> THEN 0
    ELSE Count(Tail(col)) + (IF Head(col).t = "null" THEN 0 ELSE 1)

\* Faulty variant of CastFails: a cast with strict=False, which never raises.
CastNeverFails(col) == FALSE

\* cast(pl.Float64) is strict: a non-null cell that is no number raises.
CastFails(col) == \E i \in 1..Len(col) : col[i].t = "text"

\* cast(pl.Float64) of a column it does not fail on: the non-null values,
\* in row order (the aggregations skip nulls).
RECURSIVE CastFloat64(_)
CastFloat64(col) ==
    IF col = <<>> THEN <<>>
    ELSE IF Head(col).t = "num" THEN <<Head(col).f>> \o CastFloat64(Tail(col))
    ELSE CastFloat64(Tail(col))

\* The running float sum of xs, left to right, from acc.
RECURSIVE SumFrom(_, _)
SumFrom(acc, xs) ==
    IF xs = <<>> THEN acc ELSE SumFrom(FAdd(acc, Head(xs)), Tail(xs))

\* Faulty variant of Sum: the sum of no values is null on every build.
SumNullOfNothing(xs, build) ==
    IF xs = <<>> THEN None ELSE SumFrom(Fin(0), xs)

\* .sum(): Float64 addition over the non-null values; of no values it is
\* 0.0 or null, as the library build defines it.
Sum(xs, build) ==
    IF xs = <<>> /\ ~build.zeroSum THEN None ELSE SumFrom(Fin(0), xs)

\* Faulty variant of Mean: floor division in place of float division.
MeanFloorDiv(xs) ==
    LET total == SumFrom(Fin(0), xs)
    IN  IF xs = <<>> THEN None
        ELSE IF total.kind = "fin" THEN Fin(total.v \div Len(xs))
        ELSE total

\* .mean(): the float sum divided by the number of non-null values, null
\* when there is none.
Mean(xs) == IF xs = <<>> THEN None ELSE FDiv(SumFrom(Fin(0), xs), Len(xs))

\* The values min and max range over: NaN is skipped unless every value is NaN.
Ordered(xs) ==
    LET all == {xs[i] : i \in 1..Len(xs)}
    IN  IF all = {NaN} THEN all ELSE all \ {NaN}

\* Faulty variant of Min: NaN is propagated instead of skipped.
MinPropagatesNaN(xs) ==
    IF xs = <<>> THEN None
    ELSE IF \E i \in 1..Len(xs) : xs[i] = NaN THEN NaN
    ELSE CHOOSE m \in Ordered(xs) : \A x \in Ordered(xs) : m = x \/ FLess(m, x)

\* .min(): null when there is no value.
Min(xs) ==
    IF xs = <<>> THEN None
    ELSE CHOOSE m \in Ordered(xs) : \A x \in Ordered(xs) : m = x \/ FLess(m, x)

\* .max(): null when there is no value.
Max(xs) ==
    IF xs = <<>> THEN None
    ELSE CHOOSE m \in Ordered(xs) : \A x \in Ordered(xs) : m = x \/ FLess(x, m)

\* The single row lf.select(aggregations).collect() returns.
Aggregate(col, build) ==
    LET xs == CastFloat64(col)
    IN  [count |-> Count(col),
         min   |-> Min(xs),
         max   |-> Max(xs),
         sum   |-> Sum(xs, build),
         mean  |-> Mean(xs)]

NoRow == [count |-> 0, min |-> None, max |-> None, sum |-> None, mean |-> None]

\* SelectedStats; set is FALSE while main's stats is unbound.
SelectedStats(row) ==
    [set   |-> TRUE,
     count |-> row.count,
     min   |-> row.min,
     max   |-> row.max,
     sum   |-> row.sum,
     mean  |-> row.mean]

NoStats == [set |-> FALSE, count |-> 0, min |-> None, max |-> None,
            sum |-> None, mean |-> None]

\* ------------------------------------------------- formatting
Digit(d) == CASE d = 0 -> "0" [] d = 1 -> "1" [] d = 2 -> "2" [] d = 3 -> "3"
              [] d = 4 -> "4" [] d = 5 -> "5" [] d = 6 -> "6" [] d = 7 -> "7"
              [] d = 8 -> "8" [] d = 9 -> "9"

\* The decimal digits of n >= 0, without leading zeros.
RECURSIVE IntDigits(_)
IntDigits(n) ==
    IF n < 10 THEN <<Digit(n)>> ELSE Append(IntDigits(n \div 10), Digit(n % 10))

\* The last k decimal digits of n >= 0, zero-padded.
RECURSIVE FracDigits(_, _)
FracDigits(n, k) ==
    IF k = 0 THEN <<>> ELSE Append(FracDigits(n \div 10, k - 1), Digit(n % 10))

\* f"{val:.4f}" of a finite value of v units: rounded to Digits decimals,
\* the sign kept even when the rounded magnitude is zero.
FormatFixed(v) ==
    LET m == Abs(RoundDiv(v, Scale \div (10 ^ Digits)))
        sign == IF v < 0 THEN <<"-">> ELSE <<>>
    IN  sign \o IntDigits(m \div (10 ^ Digits)) \o <<".">> \o FracDigits(m % (10 ^ Digits), Digits)

\* f"{val:.4f}" of any float: inf and nan have no fixed-point rendering.
FormatFloat(x) ==
    CASE x.kind = "fin" -> FormatFixed(x.v)
      [] x.kind = "nan" -> <<"n", "a", "n">>
      [] x.kind = "inf" -> (IF x.v < 0 THEN <<"-">> ELSE <<>>) \o <<"i", "n", "f">>

\* Faulty variant of format_opt: "if val" in place of "if val is not None",
\* which takes 0.0 for absent.
format_optTruthy(val) ==
    IF val.kind # "none" /\ val # Fin(0) THEN FormatFloat(val) ELSE <<"N", "/", "A">>

\* format_opt
format_opt(val) ==
    IF val.kind # "none" THEN FormatFloat(val) ELSE <<"N", "/", "A">>

\* f"{stats.count}"
FormatCount(n) == IntDigits(n)

Line(label, text) == [label |-> label, text |-> text]

\* ------------------------------------------------- exceptions
NoExc == [type |-> "none", msg |-> "none"]
Exc(t, m) == [type |-> t, msg |-> m]

\* What pl.scan_csv raises: a build that resolves the schema at once opens
\* the file, a lazy one touches nothing.
ScanRaises(build, f) ==
    IF build.lazyScan THEN "none"
    ELSE IF f.state = "missing" THEN "FileNotFoundError"
    ELSE IF f.state = "garbled" THEN "ComputeError"
    ELSE "none"

\* The except clauses around pl.scan_csv.
ScanHandler(raised) ==
    IF raised = "FileNotFoundError"
    THEN Exc("FileNotFoundError", "was not found")
    ELSE Exc("RuntimeError", "Error reading CSV file")

\* What lf.select(aggregations).collect() raises: the file is opened if the
\* scan did not, the plan is resolved against the header, then the column
\* is read and cast.
CollectRaises(build, f, column_name) ==
    IF f.state = "missing" THEN "FileNotFoundError"
    ELSE IF f.state = "garbled" THEN "ComputeError"
    ELSE IF column_name \notin f.header THEN "ColumnNotFoundError"
    ELSE IF CastFails(f.data) THEN "InvalidOperationError"
    ELSE "none"

\* Faulty variant of CollectHandler: without the ColumnNotFoundError clause.
CollectHandlerCatchAll(raised, column_name) ==
    Exc("RuntimeError", "Error processing data with Polars")

\* Faulty variant of CollectHandler: without the catch-all clause, so that
\* the library's exception propagates as it is.
CollectHandlerReraises(raised, column_name) ==
    IF raised = "ColumnNotFoundError"
    THEN Exc("ValueError", "not found in the file")
    ELSE Exc(raised, "polars error")

\* The except clauses around collect.
CollectHandler(raised, column_name) ==
    IF raised = "ColumnNotFoundError"
    THEN Exc("ValueError", "not found in the file")
    ELSE Exc("RuntimeError", "Error processing data with Polars")

\* The exception types main's except clause names.
Caught == {"FileNotFoundError", "ValueError", "RuntimeError"}

\* ------------------------------------------------- the state machine
Init ==
    /\ polars \in PolarsBuilds
    /\ file \in Files
    /\ args \in [column_name : ColumnNames]
    /\ pc = "call"
    /\ lf = "unset"
    /\ stats_df = NoRow
    /\ stats = NoStats
    /\ exc = NoExc
    /\ stdout = <<>>
    /\ stderr = <<>>
    /\ exitCode = -1
    /\ run = 1
    /\ prev = [stats |-> NoStats, exc |-> NoExc, file |-> file]

\* Faulty variant of CallProcessCsv: the banner printed before the call.
CallAfterBanner ==
    /\ pc = "call"
    /\ pc' = "scan"
    /\ stdout' = Append(stdout, Line("Output for python-polars", <<>>))
    /\ UNCHANGED <<polars, file, args, lf, stats_df, stats, exc, stderr,
                   exitCode, run, prev>>

\* main: stats = process_csv(args.file_path, args.column_name)
CallProcessCsv ==
    /\ pc = "call"
    /\ pc' = "scan"
    /\ UNCHANGED <<polars, file, args, lf, stats_df, stats, exc, stdout,
                   stderr, exitCode, run, prev>>

\* process_csv: lf = pl.scan_csv(file_path), with its except clauses
ScanCsv ==
    /\ pc = "scan"
    /\ LET raised == ScanRaises(polars, file)
       IN  IF raised = "none"
           THEN /\ lf' = "plan"
                /\ pc' = "collect"
                /\ exc' = exc
           ELSE /\ lf' = lf
                /\ pc' = "except"
                /\ exc' = ScanHandler(raised)
    /\ UNCHANGED <<polars, file, args, stats_df, stats, stdout, stderr,
                   exitCode, run, prev>>

\* Faulty variant of Collect: the count accumulates in state that outlives
\* the call.
CollectAccumulating ==
    /\ pc = "collect"
    /\ LET raised == CollectRaises(polars, file, args.column_name)
           row == Aggregate(file.data, polars)
       IN  IF raised = "none"
           THEN /\ stats_df' = [row EXCEPT !.count = @ + prev.stats.count]
                /\ pc' = "extract"
                /\ exc' = exc
           ELSE /\ stats_df' = stats_df
                /\ pc' = "except"
                /\ exc' = CollectHandler(raised, args.column_name)
    /\ UNCHANGED <<polars, file, args, lf, stats, stdout, stderr, exitCode,
                   run, prev>>

\* process_csv: stats_df = lf.select(aggregations).collect(), with its
\* except clauses
Collect ==
    /\ pc = "collect"
    /\ LET raised == CollectRaises(polars, file, args.column_name)
       IN  IF raised = "none"
           THEN /\ stats_df' = Aggregate(file.data, polars)
                /\ pc' = "extract"
                /\ exc' = exc
           ELSE /\ stats_df' = stats_df
                /\ pc' = "except"
                /\ exc' = CollectHandler(raised, args.column_name)
    /\ UNCHANGED <<polars, file, args, lf, stats, stdout, stderr, exitCode,
                   run, prev>>

\* process_csv: stats_dict = stats_df.row(0, named=True); return
\* SelectedStats(...)
ReturnStats ==
    /\ pc = "extract"
    /\ stats' = SelectedStats(stats_df)
    /\ pc' = "print_banner"
    /\ UNCHANGED <<polars, file, args, lf, stats_df, exc, stdout, stderr,
                   exitCode, run, prev>>

\* One print statement of main: at, the line, the statement after it.
PrintLine(at, line, next) ==
    /\ pc = at
    /\ stdout' = Append(stdout, line)
    /\ pc' = next
    /\ UNCHANGED <<polars, file, args, lf, stats_df, stats, exc, stderr,
                   exitCode, run, prev>>

PrintBanner ==
    PrintLine("print_banner", Line("Output for python-polars", <<>>), "print_header")

PrintHeader ==
    PrintLine("print_header", Line("--- Statistics for", <<args.column_name>>), "print_count")

PrintCount ==
    PrintLine("print_count", Line("Count:", FormatCount(stats.count)), "print_min")

PrintMin == PrintLine("print_min", Line("Min:", format_opt(stats.min)), "print_max")

PrintMax == PrintLine("print_max", Line("Max:", format_opt(stats.max)), "print_sum")

PrintSum == PrintLine("print_sum", Line("Sum:", format_opt(stats.sum)), "print_mean")

PrintMean == PrintLine("print_mean", Line("Mean:", format_opt(stats.mean)), "return")

\* main returns and the interpreter exits with status 0.
ExitOk ==
    /\ pc = "return"
    /\ exitCode' = 0
    /\ pc' = "done"
    /\ UNCHANGED <<polars, file, args, lf, stats_df, stats, exc, stdout,
                   stderr, run, prev>>

\* main: except (FileNotFoundError, ValueError, RuntimeError) as e:
\* print(e, file=sys.stderr).  An exception of any other type is not caught:
\* the interpreter writes the traceback and exits with status 1.
HandleError ==
    /\ pc = "except"
    /\ IF exc.type \in Caught
       THEN /\ stderr' = Append(stderr, exc.msg)
            /\ pc' = "sys_exit"
            /\ exitCode' = exitCode
       ELSE /\ stderr' = stderr \o <<"Traceback (most recent call last):", exc.msg>>
            /\ pc' = "done"
            /\ exitCode' = 1
    /\ UNCHANGED <<polars, file, args, lf, stats_df, stats, exc, stdout,
                   run, prev>>

\* main: sys.exit(1)
SysExit ==
    /\ pc = "sys_exit"
    /\ exitCode' = 1
    /\ pc' = "done"
    /\ UNCHANGED <<polars, file, args, lf, stats_df, stats, exc, stdout,
                   stderr, run, prev>>

\* The program is run again on the same file with the same arguments: a
\* new process, whose only inheritance is the file system.
Rerun ==
    /\ pc = "done"
    /\ run < MaxRuns
    /\ run' = run + 1
    /\ prev' = [stats |-> stats, exc |-> exc, file |-> file]
    /\ pc' = "call"
    /\ lf' = "unset"
    /\ stats_df' = NoRow
    /\ stats' = NoStats
    /\ exc' = NoExc
    /\ stdout' = <<>>
    /\ stderr' = <<>>
    /\ exitCode' = -1
    /\ UNCHANGED <<polars, file, args>>

Next ==
    \/ CallProcessCsv
    \/ ScanCsv
    \/ Collect
    \/ ReturnStats
    \/ PrintBanner
    \/ PrintHeader
    \/ PrintCount
    \/ PrintMin
    \/ PrintMax
    \/ PrintSum
    \/ PrintMean
    \/ ExitOk
    \/ HandleError
    \/ SysExit
    \/ Rerun

Spec == Init /\ [][Next]_vars

\* ------------------------------------------------- vocabulary of the claims
\* process_csv has returned or raised.
ProcessCsvDone == pc \notin {"call", "scan", "collect", "extract"}

Returned == stats.set
Failed == exc.type # "none"

\* The file is a readable CSV file whose header holds the requested column.
ColumnExists == file.state = "ok" /\ args.column_name \in file.header

Rows == 1..Len(file.data)
NumericRows == {i \in Rows : file.data[i].t = "num"}
TextRows == {i \in Rows : file.data[i].t = "text"}
NonNullRows == {i \in Rows : file.data[i].t # "null"}

\* Every row of the column holds a finite number.
AllValidNumbers == \A i \in Rows : file.data[i].t = "num" /\ file.data[i].f.kind = "fin"

\* The exact sum of the first k rows of a column of numbers.
RECURSIVE ExactSum(_)
ExactSum(k) == IF k = 0 THEN 0 ELSE ExactSum(k - 1) + file.data[k].f.v

NoPartialOverflow == \A k \in Rows : Abs(ExactSum(k)) <= FMax

\* C1: when the column exists and its N rows are all valid numbers,
\* process_csv returns count = N, sum = the sum of the N values (infinite
\* once a partial sum overflows) and mean = sum / count to the nearest unit,
\* sum and mean both present when N >= 1.
C1_AllNumbers ==
    (ProcessCsvDone /\ ColumnExists /\ AllValidNumbers) =>
        /\ Returned
        /\ ~Failed
        /\ stats.count = Len(file.data)
        /\ NoPartialOverflow /\ Rows # {} => stats.sum = Fin(ExactSum(Len(file.data)))
        /\ ~NoPartialOverflow => stats.sum.kind = "inf"
        /\ Rows # {} =>
              /\ stats.sum.kind \in {"fin", "inf"}
              /\ stats.mean.kind = stats.sum.kind
              /\ stats.sum.kind = "inf" => stats.mean = stats.sum
              /\ stats.sum.kind = "fin" =>
                    2 * Abs(stats.mean.v * stats.count - stats.sum.v) <= stats.count

C1_Witness ==
    /\ Returned
    /\ ColumnExists
    /\ AllValidNumbers
    /\ Len(file.data) = 3
    /\ stats.sum = Fin(50 * Scale)
    /\ stats.mean = Fin(1666667)

\* The column mixes numeric cells with a non-null cell that is no number.
MixedColumn == ColumnExists /\ TextRows # {} /\ NumericRows # {}

\* The values of the numeric rows, in row order.
NumericValues == CastFloat64(file.data)

NothingCoerces == ColumnExists /\ NumericRows = {}

AllAbsent(st) ==
    st.min = None /\ st.max = None /\ st.sum = None /\ st.mean = None

C5_FileNotFound ==
    (ProcessCsvDone /\ file.state = "missing") =>
        exc = Exc("FileNotFoundError", "was not found")

Labels == <<"Output for python-polars", "--- Statistics for", "Count:", "Min:",
            "Max:", "Sum:", "Mean:">>

\* C7: standard output at termination holds all seven lines in order or
\* nothing; no line is written before process_csv has returned, and a run
\* that fails has an empty standard output.
C7_AllOrNothing ==
    /\ stdout # <<>> => Returned /\ ~Failed
    /\ Len(stdout) <= 7
    /\ \A i \in 1..Len(stdout) : stdout[i].label = Labels[i]
    /\ pc = "done" => Len(stdout) \in {0, 7}
    /\ (pc = "done" /\ Failed) => stdout = <<>>

C7_Witness == pc = "done" /\ Len(stdout) = 7 /\ stdout[7].label = "Mean:"

\* C8: a second run on the same file and column ends as the first did: the
\* same count, min, max, sum and mean, or the same error; the first run
\* leaves the file as it was.
C8_Idempotent ==
    /\ file = prev.file
    /\ (run >= 2 /\ ProcessCsvDone) => stats = prev.stats /\ exc = prev.exc

C8_Witness ==
    /\ run = 2
    /\ pc = "done"
    /\ Returned
    /\ stats.count = 3
    /\ stats.sum.kind = "inf"
    /\ prev.stats = stats

DigitChars == {"0", "1", "2", "3", "4", "5", "6", "7", "8", "9"}

\* t is digits, a point and exactly Digits digits, with an optional sign.
FixedPoint(t) ==
    \E k \in 1..Len(t) :
        /\ t[k] = "."
        /\ Len(t) = k + Digits
        /\ \A j \in (k + 1)..Len(t) : t[j] \in DigitChars
        /\ LET first == IF t[1] = "-" THEN 2 ELSE 1
           IN  first < k /\ \A j \in first..(k - 1) : t[j] \in DigitChars

\* The number a digit stands for.
DigitValue(c) == CHOOSE d \in 0..9 : Digit(d) = c

\* The magnitude t denotes, in units of 10^-Digits: its digits read as one
\* number, the sign and the point dropped.
RECURSIVE Magnitude(_)
Magnitude(t) ==
    IF t = <<>> THEN 0
    ELSE LET c == t[Len(t)]
             rest == Magnitude(SubSeq(t, 1, Len(t) - 1))
         IN  IF c \in DigitChars THEN 10 * rest + DigitValue(c) ELSE rest

\* The float fields of stats in the order of their lines on standard output
\* (lines 4 to 7).
FloatLines == 4..7
FloatField(i) ==
    CASE i = 4 -> stats.min [] i = 5 -> stats.max [] i = 6 -> stats.sum
      [] i = 7 -> stats.mean

Printed(i) == i <= Len(stdout)

CountIsPlainInteger ==
    Printed(3) =>
        /\ stdout[3].text # <<>>
        /\ \A j \in 1..Len(stdout[3].text) : stdout[3].text[j] \in DigitChars
        /\ Magnitude(stdout[3].text) = stats.count

Present(x) == x # None

\* C10 as stated: in every SelectedStats returned, min, max and mean are all
\* present or all absent, present exactly when some cell coerced to a
\* number, when present min <= mean <= max, and count is at least the
\* number of cells that contributed.
C10_AsStated ==
    Returned =>
        /\ Present(stats.min) <=> NumericRows # {}
        /\ Present(stats.max) <=> NumericRows # {}
        /\ Present(stats.mean) <=> NumericRows # {}
        /\ NumericRows # {} => FLe(stats.min, stats.mean) /\ FLe(stats.mean, stats.max)
        /\ stats.count >= Cardinality(NumericRows)

\* C10 amended: in every SelectedStats returned, min, max and mean are all
\* present or all absent, present exactly when some cell coerced to a
\* number; when present, min and max are both NaN or neither is and then
\* min <= max; mean need not lie between them (a NaN cell, or a sum that
\* overflows, puts it outside); count is at least the number of cells that
\* contributed.
C10_Consistent ==
    Returned =>
        /\ Present(stats.min) <=> NumericRows # {}
        /\ Present(stats.max) <=> NumericRows # {}
        /\ Present(stats.mean) <=> NumericRows # {}
        /\ NumericRows # {} =>
              /\ stats.min = NaN <=> stats.max = NaN
              /\ stats.min # NaN => FLe(stats.min, stats.max)
        /\ stats.count >= Cardinality(NumericRows)

C10_Witness ==
    /\ Returned
    /\ stats.count = 3
    /\ stats.min = Fin(-4)
    /\ stats.max = Fin(FMax)
    /\ stats.mean = NaN

====
